---- MODULE Spec2Model ----
(***************************************************************************)
(* Model of webapp/app.py: the upload handler (upload_completed and        *)
(* add_file_and_metadata_to_blob_storage) and the gallery handler, run as  *)
(* concurrent asyncio request handlers against one blob container.         *)
(* Handlers are split at the awaits where another handler can run.         *)
(* Strings that the code parses (file names, blob names) are sequences of  *)
(* one-character strings; opaque strings are TLA+ strings.                 *)
(***************************************************************************)
EXTENDS Integers, Sequences, FiniteSets, TLC

\* ---------------------------------------------------------------- bounds
NumUploaders == 2
NumGalleries == 2
MaxNameLen == 5

Uploaders == 1..NumUploaders
Galleries == 1..NumGalleries

\* ---------------------------------------------------------------- inputs
Alphabet == {"a", "B", "."}

RECURSIVE NamesOfLen(_)
NamesOfLen(n) ==
    IF n = 0 THEN {<< >>}
    ELSE {Append(s, c) : s \in NamesOfLen(n - 1), c \in Alphabet}

\* every non-empty file name over Alphabet of at most MaxNameLen characters
AllNames == UNION {NamesOfLen(n) : n \in 1..MaxNameLen}

ContentTypes == {"video/mp4", "video/webm"}
Contents == {"bytes1"}

\* the multipart field video_recording: a file name, a content type, bytes
Field(names, types) ==
    [filename : names, content_type : types, contents : Contents]

\* the uploads used where several of them interleave
Fields ==
    {[filename |-> <<"a", ".", "B">>, content_type |-> "video/mp4",
      contents |-> "bytes1"],
     [filename |-> <<"a", "B">>, content_type |-> "video/webm",
      contents |-> "bytes1"]}

\* every upload of a file name of AllNames
AllFields == Field(AllNames, ContentTypes)

\* Python's None, and the markers of a value not yet set and of a raise,
\* written as the file names and ids are, so that they compare with them
None == << "None" >>
Unset == << "unset" >>
Raised == << "raised" >>

\* ---------------------------------------------------------------- str methods
LowerChar(c) ==
    CASE c = "A" -> "a"
      [] c = "B" -> "b"
      [] OTHER -> c

lower(s) == [i \in 1..Len(s) |-> LowerChar(s[i])]

RECURSIVE split(_, _)
split(s, sep) ==
    IF \A i \in 1..Len(s) : s[i] # sep THEN << s >>
    ELSE LET i == CHOOSE j \in 1..Len(s) :
                      s[j] = sep /\ \A k \in 1..(j - 1) : s[k] # sep
         IN  << SubSeq(s, 1, i - 1) >> \o split(SubSeq(s, i + 1, Len(s)), sep)

\* the extension as split(".")[-1] alone would give it
extension_not_lowered(file_name) ==
    LET parts == split(file_name, ".") IN parts[Len(parts)]

\* the extension as os.path.splitext would give it: none without a "."
extension_splitext(file_name) ==
    LET parts == split(file_name, ".")
    IN  IF Len(parts) = 1 THEN << >> ELSE lower(parts[Len(parts)])

\* file_name.split(".")[-1].lower()
extension(file_name) ==
    LET parts == split(file_name, ".") IN lower(parts[Len(parts)])

\* str(uuid.uuid4()): one token stands for the 36 characters of a UUID,
\* none of which is "."
\* an identifier drawn once for the module instead of once per call
uuid4_fixed(used) == << "u1" >>

\* uuid4 draws 122 random bits: a value is never drawn twice. The values
\* are only compared for equality, so the one drawn is the first unused
uuid4(used) ==
    << "u" \o ToString(CHOOSE n \in 1..NumUploaders :
          /\ << "u" \o ToString(n) >> \notin used
          /\ \A m \in 1..(n - 1) : << "u" \o ToString(m) >> \in used) >>

\* f"{file_uuid_str}.{extension}"
new_filename(file_uuid_str, ext) == file_uuid_str \o << "." >> \o ext

\* the metadata mapping without its last entry
upload_metadata_no_badge(file_name, file_uuid_str) ==
    [original_file_name |-> file_name,
     uuid |-> file_uuid_str,
     author |-> "Dummy User",
     title |-> "Dummy title"]

\* the metadata mapping passed to upload_blob
upload_metadata(file_name, file_uuid_str) ==
    [original_file_name |-> file_name,
     uuid |-> file_uuid_str,
     author |-> "Dummy User",
     title |-> "Dummy title",
     badge |-> "dummy badge"]

\* the blob written by upload_blob
new_blob(file_name, file_contents, file_content_type, file_uuid_str) ==
    [contents |-> file_contents,
     content_type |-> file_content_type,
     metadata |-> upload_metadata(file_name, file_uuid_str)]

\* the keys the gallery reads with metadata[...]
gallery_keys == {"uuid", "author", "title", "badge"}

image_url == "https://bootsnipp.com/bootstrap-builder/libs/builder/icons/image.svg"

\* the dict with author read from the title
gallery_record_swapped(metadata) ==
    [uuid |-> metadata.uuid,
     image_url |-> image_url,
     author |-> metadata.title,
     title |-> metadata.title,
     badge |-> metadata.badge]

\* the dict appended to blobs_list
gallery_record(metadata) ==
    [uuid |-> metadata.uuid,
     image_url |-> image_url,
     author |-> metadata.author,
     title |-> metadata.title,
     badge |-> metadata.badge]

\* ---------------------------------------------------------------- state
VARIABLES container, issued, up, gal

vars == << container, issued, up, gal >>

\* blobs found in the container when the server starts: one written by an
\* earlier upload of "a.B", one put there by another tool without "badge"
OldKey == << "u0", ".", "b" >>
OldBlob == new_blob(<< "a", ".", "B" >>, "bytes0", "video/mp4", << "u0" >>)
ForeignKey == << "x", ".", "b" >>
ForeignBlob ==
    [contents |-> "bytes0",
     content_type |-> "video/mp4",
     metadata |-> [uuid |-> << "x" >>, author |-> "someone", title |-> "t"]]

InitContainers ==
    { << >>,
      (OldKey :> OldBlob),
      (ForeignKey :> ForeignBlob),
      (OldKey :> OldBlob) @@ (ForeignKey :> ForeignBlob) }

\* what a gallery request answers: the template and its blobs
NoResponse == [template |-> "none", blobs |-> << >>]
ErrorResponse == [template |-> "error", blobs |-> << >>]
TemplateResponse(name, blobs) == [template |-> name, blobs |-> blobs]

UpIdle ==
    [pc |-> "idle", file_name |-> << >>, file_contents |-> "",
     file_content_type |-> "", file_uuid_str |-> << >>,
     new_filename |-> << >>, blob_open |-> FALSE, writes |-> 0,
     write_error |-> FALSE, result |-> Unset, response |-> "none"]

GalIdle ==
    [pc |-> "idle", blobs_list |-> << >>, remaining |-> {},
     snapshot |-> << >>, stores_since |-> FALSE,
     service_open |-> FALSE, container_open |-> FALSE,
     error |-> "none", error_key |-> << >>, response |-> NoResponse]

Init ==
    /\ container \in InitContainers
    /\ issued = {<< "u0" >>, << "x" >>}
    /\ up = [u \in Uploaders |-> UpIdle]
    /\ gal = [g \in Galleries |-> GalIdle]

\* ---------------------------------------------------------------- upload
\* a store that ends with return file_uuid_str
store_return_id(file_uuid_str) == file_uuid_str

\* what add_file_and_metadata_to_blob_storage hands back: the function has
\* no return statement
store_return(file_uuid_str) == None

\* upload_completed up to the await of upload_blob: the form is read, the
\* blob name is composed and the BlobClient is created
UploadRequest(u, fields) ==
    /\ up[u].pc = "idle"
    /\ \E video_recording \in fields :
          LET file_name == video_recording.filename
              file_content_type == video_recording.content_type
              file_contents == video_recording.contents
              file_uuid_str == uuid4(issued)
          IN
          /\ up' = [up EXCEPT ![u] =
                      [@ EXCEPT !.pc = "upload_blob",
                                !.file_name = file_name,
                                !.file_contents = file_contents,
                                !.file_content_type = file_content_type,
                                !.file_uuid_str = file_uuid_str,
                                !.new_filename =
                                    new_filename(file_uuid_str, extension(file_name)),
                                !.blob_open = TRUE]]
          /\ issued' = issued \cup {file_uuid_str}
    /\ UNCHANGED << container, gal >>

\* a gallery that has begun has had a store complete since it began; one
\* that is enumerating may or may not be shown the new blob
gallery_after_store(g, key, seen) ==
    IF gal[g].pc = "idle" THEN gal[g]
    ELSE [gal[g] EXCEPT !.stores_since = TRUE,
                        !.remaining = IF g \in seen THEN @ \cup {key} ELSE @]

\* upload_blob succeeds: one atomic write of a new blob (overwrite is off)
UploadBlobOk(u) ==
    /\ up[u].pc = "upload_blob"
    /\ up[u].new_filename \notin DOMAIN container
    /\ container' = container @@
           (up[u].new_filename :>
               new_blob(up[u].file_name, up[u].file_contents,
                        up[u].file_content_type, up[u].file_uuid_str))
    /\ \E seen \in SUBSET {g \in Galleries : gal[g].pc = "listing"} :
          gal' = [g \in Galleries |->
                     gallery_after_store(g, up[u].new_filename, seen)]
    /\ up' = [up EXCEPT ![u] = [@ EXCEPT !.pc = "close", !.writes = @ + 1]]
    /\ UNCHANGED issued

\* upload_blob raises inside a try whose except passes
UploadBlobFail_swallowed(u) ==
    /\ up[u].pc = "upload_blob"
    /\ up' = [up EXCEPT ![u] = [@ EXCEPT !.pc = "close",
                                         !.writes = @ + 1,
                                         !.write_error = TRUE]]
    /\ UNCHANGED << container, issued, gal >>

\* upload_blob raises: nothing catches it in add_file_and_metadata_to_blob_storage
\* or in upload_completed, so blob.close() and the template response are skipped
UploadBlobFail(u) ==
    /\ up[u].pc = "upload_blob"
    /\ up' = [up EXCEPT ![u] = [@ EXCEPT !.pc = "failed",
                                         !.writes = @ + 1,
                                         !.write_error = TRUE,
                                         !.result = Raised,
                                         !.response = "error"]]
    /\ UNCHANGED << container, issued, gal >>

\* blob.close(), the return of the store and the response of upload_completed
UploadClose(u) ==
    /\ up[u].pc = "close"
    /\ up' = [up EXCEPT ![u] = [@ EXCEPT !.pc = "done",
                                         !.blob_open = FALSE,
                                         !.result = store_return(up[u].file_uuid_str),
                                         !.response = "uploaded.html"]]
    /\ UNCHANGED << container, issued, gal >>

\* ---------------------------------------------------------------- gallery
\* the two clients are created and the enumeration starts
GalleryBegin(g) ==
    /\ gal[g].pc = "idle"
    /\ gal' = [gal EXCEPT ![g] = [@ EXCEPT !.pc = "listing",
                                           !.service_open = TRUE,
                                           !.container_open = TRUE,
                                           !.blobs_list = << >>,
                                           !.remaining = DOMAIN container,
                                           !.snapshot = container,
                                           !.stores_since = FALSE]]
    /\ UNCHANGED << container, issued, up >>

\* a pass that assigns blobs_list instead of appending to it
gallery_step_assign(g, key) ==
    LET metadata == container[key].metadata IN
    IF gallery_keys \subseteq DOMAIN metadata
    THEN [gal[g] EXCEPT !.blobs_list = << gallery_record(metadata) >>,
                        !.remaining = @ \ {key}]
    ELSE [gal[g] EXCEPT !.pc = "failed",
                        !.error = "KeyError",
                        !.error_key = key,
                        !.response = ErrorResponse]

\* a pass that reads the keys with metadata.get(key, "")
gallery_step_get(g, key) ==
    LET metadata == container[key].metadata
        get(k) == IF k \in DOMAIN metadata THEN metadata[k] ELSE ""
    IN  [gal[g] EXCEPT !.blobs_list =
                           Append(@, [uuid |-> IF "uuid" \in DOMAIN metadata
                                               THEN metadata.uuid ELSE << >>,
                                      image_url |-> image_url,
                                      author |-> get("author"),
                                      title |-> get("title"),
                                      badge |-> get("badge")]),
                       !.remaining = @ \ {key}]

\* one pass through the body of the async for, on the blob list_blobs yields
gallery_step(g, key) ==
    LET metadata == container[key].metadata IN
    IF gallery_keys \subseteq DOMAIN metadata
    THEN [gal[g] EXCEPT !.blobs_list = Append(@, gallery_record(metadata)),
                        !.remaining = @ \ {key}]
    ELSE [gal[g] EXCEPT !.pc = "failed",
                        !.error = "KeyError",
                        !.error_key = key,
                        !.response = ErrorResponse]

GalleryNext(g) ==
    /\ gal[g].pc = "listing"
    /\ \E key \in gal[g].remaining :
          gal' = [gal EXCEPT ![g] = gallery_step(g, key)]
    /\ UNCHANGED << container, issued, up >>

\* list_blobs raises while the blobs are enumerated
GalleryEnumFail(g) ==
    /\ gal[g].pc = "listing"
    /\ gal' = [gal EXCEPT ![g] = [@ EXCEPT !.pc = "failed",
                                           !.error = "StorageError",
                                           !.response = ErrorResponse]]
    /\ UNCHANGED << container, issued, up >>

\* the enumeration is exhausted: both clients are closed and the template
\* is rendered with blobs_list
GalleryFinish(g) ==
    /\ gal[g].pc = "listing"
    /\ gal[g].remaining = {}
    /\ gal' = [gal EXCEPT ![g] = [@ EXCEPT !.pc = "done",
                                           !.container_open = FALSE,
                                           !.service_open = FALSE,
                                           !.response =
                                               TemplateResponse("gallery.html",
                                                                gal[g].blobs_list)]]
    /\ UNCHANGED << container, issued, up >>

\* ---------------------------------------------------------------- specifications
\* interleaved uploads
Next ==
    \/ \E u \in Uploaders : UploadRequest(u, Fields)
    \/ \E u \in Uploaders : UploadBlobOk(u)
    \/ \E u \in Uploaders : UploadBlobFail(u)
    \/ \E u \in Uploaders : UploadClose(u)

Spec == Init /\ [][Next]_vars

\* one upload of any file name and one gallery request
NextNames ==
    \/ UploadRequest(1, AllFields)
    \/ UploadBlobOk(1)
    \/ UploadBlobFail(1)
    \/ UploadClose(1)
    \/ GalleryBegin(1)
    \/ GalleryNext(1)
    \/ GalleryEnumFail(1)
    \/ GalleryFinish(1)

SpecNames == Init /\ [][NextNames]_vars

\* two uploads beside one gallery request
NextBeside ==
    \/ \E u \in {1, 2} : UploadRequest(u, Fields)
    \/ \E u \in {1, 2} : UploadBlobOk(u)
    \/ \E u \in {1, 2} : UploadBlobFail(u)
    \/ \E u \in {1, 2} : UploadClose(u)
    \/ GalleryBegin(1)
    \/ GalleryNext(1)
    \/ GalleryEnumFail(1)
    \/ GalleryFinish(1)

SpecBeside == Init /\ [][NextBeside]_vars

\* interleaved gallery requests beside one upload
NextLists ==
    \/ UploadRequest(1, Fields)
    \/ UploadBlobOk(1)
    \/ UploadBlobFail(1)
    \/ UploadClose(1)
    \/ \E g \in Galleries : GalleryBegin(g)
    \/ \E g \in Galleries : GalleryNext(g)
    \/ \E g \in Galleries : GalleryEnumFail(g)
    \/ \E g \in Galleries : GalleryFinish(g)

SpecLists == Init /\ [][NextLists]_vars

\* ---------------------------------------------------------------- properties
\* upload_blob has returned for upload u: its store has written
Stored(u) == up[u].pc \in {"close", "done"}

HasDot(s) == \E i \in 1..Len(s) : s[i] = "."

\* the position of the last "." of s
LastDot(s) == CHOOSE i \in 1..Len(s) :
                  s[i] = "." /\ \A j \in (i + 1)..Len(s) : s[j] # "."

Lowered(s) == [i \in 1..Len(s) |-> IF s[i] = "B" THEN "b" ELSE s[i]]

\* what follows the last "." of s, in lower case
LoweredSuffix(s) == Lowered(SubSeq(s, LastDot(s) + 1, Len(s)))

\* the keys of the blobs whose uuid metadata is id
KeysOfId(id) ==
    {k \in DOMAIN container :
        "uuid" \in DOMAIN container[k].metadata /\ container[k].metadata.uuid = id}

\* what precedes the first "." of a key
IdPrefix(key) ==
    SubSeq(key, 1, (CHOOSE i \in 1..Len(key) :
                       key[i] = "." /\ \A j \in 1..(i - 1) : key[j] # ".") - 1)

\* C1: a store of a file name that has a "." writes its one blob under the
\* key <id>.<ext>, id the identifier drawn in that call and ext the
\* lower-cased text after the last "." of the file name.
C1_KeyIsIdDotLastSuffixLowered ==
    \A u \in Uploaders :
        (Stored(u) /\ HasDot(up[u].file_name)) =>
            LET key == up[u].file_uuid_str \o << "." >>
                          \o LoweredSuffix(up[u].file_name)
            IN  /\ key \in DOMAIN container
                /\ KeysOfId(up[u].file_uuid_str) = {key}

C1_Witness ==
    \E u \in Uploaders :
        /\ up[u].pc = "done"
        /\ up[u].file_name = << "a", ".", "a", ".", "B" >>
        /\ KeysOfId(up[u].file_uuid_str) = {up[u].file_uuid_str \o << ".", "b" >>}

\* C2 as claimed: a store that has ended well has handed its caller the
\* identifier it drew.
C2_StoreReturnsId ==
    \A u \in Uploaders :
        up[u].pc = "done" => up[u].result = up[u].file_uuid_str

\* C2 amended: a store that has ended well has handed its caller None; the
\* identifier it drew is the prefix of the key of the blob it wrote and the
\* uuid metadata of that blob, and nothing else carries it.
C2_StoreReturnsNone ==
    \A u \in Uploaders :
        up[u].pc = "done" =>
            /\ up[u].result = None
            /\ up[u].new_filename \in DOMAIN container
            /\ IdPrefix(up[u].new_filename) = up[u].file_uuid_str
            /\ container[up[u].new_filename].metadata.uuid = up[u].file_uuid_str

C2_Witness ==
    \E u \in Uploaders :
        /\ up[u].pc = "done"
        /\ up[u].response = "uploaded.html"
        /\ up[u].file_uuid_str # << >>
        /\ up[u].new_filename \in DOMAIN container

\* the uploads whose write completes in this step
StoredNow == {u \in Uploaders : ~Stored(u) /\ Stored(u)'}

\* C3: the stores that have written have written one blob each, under keys
\* and identifiers different from one another, also when their inputs are
\* the same; a step adds one blob per store whose write completes in it and
\* leaves every blob that was there as it was.
C3_NoDedupNoOverwrite ==
    /\ [](\A u, v \in Uploaders :
            (Stored(u) /\ Stored(v) /\ u # v) =>
                /\ up[u].new_filename # up[v].new_filename
                /\ up[u].file_uuid_str # up[v].file_uuid_str
                /\ up[u].new_filename \in DOMAIN container
                /\ up[v].new_filename \in DOMAIN container)
    /\ [][/\ Cardinality(DOMAIN container') =
                Cardinality(DOMAIN container) + Cardinality(StoredNow)
          /\ \A k \in DOMAIN container :
                k \in DOMAIN container' /\ container'[k] = container[k]]_vars

C3_Witness ==
    \E u, v \in Uploaders :
        /\ u # v
        /\ up[u].pc = "done" /\ up[v].pc = "done"
        /\ up[u].file_name = up[v].file_name
        /\ up[u].file_contents = up[v].file_contents
        /\ up[u].file_content_type = up[v].file_content_type
        /\ up[u].new_filename # up[v].new_filename
        /\ {up[u].new_filename, up[v].new_filename} \subseteq DOMAIN container

\* the metadata of blob carries the four keys the gallery reads
FullMetadata(blob) ==
    {"uuid", "author", "title", "badge"} \subseteq DOMAIN blob.metadata

\* the places of records where the record of blob stands
RecordsOf(records, blob) ==
    {i \in 1..Len(records) : records[i].uuid = blob.metadata.uuid}

\* C4: a gallery request that has ended well, with no store completing
\* since it began, answers one record per blob of the container, none left
\* out and none twice, and the container is as it was when it began.
C4_OneRecordPerBlob ==
    \A g \in Galleries :
        (gal[g].pc = "done" /\ ~gal[g].stores_since) =>
            /\ container = gal[g].snapshot
            /\ gal[g].response.template = "gallery.html"
            /\ Len(gal[g].response.blobs) = Cardinality(DOMAIN container)
            /\ \A k \in DOMAIN container :
                  Cardinality(RecordsOf(gal[g].response.blobs, container[k])) = 1

C4_Witness ==
    \E g \in Galleries :
        /\ gal[g].pc = "done"
        /\ ~gal[g].stores_since
        /\ Len(gal[g].response.blobs) = 2
        /\ Cardinality(DOMAIN container) = 2

\* C5 as claimed: an upload or gallery request that has ended, well or with
\* a raise, holds no open client.
C5_ClientsClosedOnEveryExit ==
    /\ \A u \in Uploaders :
          up[u].pc \in {"done", "failed"} => ~up[u].blob_open
    /\ \A g \in Galleries :
          gal[g].pc \in {"done", "failed"} =>
              ~gal[g].service_open /\ ~gal[g].container_open

\* C6: when upload_blob has raised, the store has ended with that raise,
\* the upload request has not answered uploaded.html, nothing was written
\* for it, and the write was tried once; no upload tries its write twice.
C6_WriteFailureSurfaces ==
    \A u \in Uploaders :
        /\ up[u].writes <= 1
        /\ up[u].write_error =>
              /\ up[u].pc = "failed"
              /\ up[u].result = Raised
              /\ up[u].response = "error"
              /\ up[u].writes = 1
              /\ KeysOfId(up[u].file_uuid_str) = {}

C6_Witness ==
    \E u \in Uploaders :
        /\ up[u].write_error
        /\ up[u].pc = "failed"
        /\ up[u].writes = 1

\* record is what the gallery shows of blob
RecordOf(record, blob) ==
    /\ FullMetadata(blob)
    /\ record = [uuid |-> blob.metadata.uuid,
                 image_url |->
                     "https://bootsnipp.com/bootstrap-builder/libs/builder/icons/image.svg",
                 author |-> blob.metadata.author,
                 title |-> blob.metadata.title,
                 badge |-> blob.metadata.badge]

\* C7: while stores run beside a gallery request, the request does not
\* fail on a blob a store wrote (it fails only when the enumeration raises,
\* or on a blob without a metadata key that was there when it began); each
\* record it has gathered is that of a blob of the container with the four
\* keys, no blob has two records, and once it has ended well each blob that
\* was there when it began has exactly one record.
C7_ListingBesideStores ==
    \A g \in Galleries :
        /\ gal[g].pc = "failed" =>
              \/ gal[g].error = "StorageError"
              \/ /\ gal[g].error = "KeyError"
                 /\ gal[g].error_key \in DOMAIN gal[g].snapshot
                 /\ ~FullMetadata(gal[g].snapshot[gal[g].error_key])
                 /\ \A u \in Uploaders : up[u].new_filename # gal[g].error_key
        /\ \A i \in 1..Len(gal[g].blobs_list) :
              \E k \in DOMAIN container :
                  RecordOf(gal[g].blobs_list[i], container[k])
        /\ \A k \in DOMAIN container :
              FullMetadata(container[k]) =>
                  Cardinality(RecordsOf(gal[g].blobs_list, container[k])) <= 1
        /\ gal[g].pc = "done" =>
              /\ gal[g].response.blobs = gal[g].blobs_list
              /\ \A k \in DOMAIN gal[g].snapshot :
                    Cardinality(RecordsOf(gal[g].blobs_list, container[k])) = 1

\* one gallery request ended well although two stores completed while it
\* ran: it shows the blob of one and not that of the other
C7_Witness ==
    \E g \in Galleries : \E u, v \in Uploaders :
        /\ gal[g].pc = "done"
        /\ Stored(u) /\ Stored(v)
        /\ up[u].new_filename \notin DOMAIN gal[g].snapshot
        /\ up[v].new_filename \notin DOMAIN gal[g].snapshot
        /\ \E i \in 1..Len(gal[g].response.blobs) :
              gal[g].response.blobs[i].uuid = up[u].file_uuid_str
        /\ \A i \in 1..Len(gal[g].response.blobs) :
              gal[g].response.blobs[i].uuid # up[v].file_uuid_str

\* the blobs that lack one of the four keys
Lacking(blobs) == {k \in DOMAIN blobs : ~FullMetadata(blobs[k])}

\* C8: a gallery request begun on a container with a blob that lacks one
\* of the four keys answers no list: it never renders gallery.html, whole or
\* in part, it gathers no record for that blob, and when it ends it has
\* failed, with KeyError on such a blob unless the enumeration raised first.
C8_MissingKeyFailsWholeListing ==
    \A g \in Galleries :
        (gal[g].pc # "idle" /\ Lacking(gal[g].snapshot) # {}) =>
            /\ gal[g].pc \in {"listing", "failed"}
            /\ gal[g].response.template # "gallery.html"
            /\ gal[g].response.blobs = << >>
            /\ \A k \in Lacking(gal[g].snapshot) :
                  RecordsOf(gal[g].blobs_list, container[k]) = {}
            /\ gal[g].pc = "failed" =>
                  /\ gal[g].response = ErrorResponse
                  /\ \/ gal[g].error = "StorageError"
                     \/ /\ gal[g].error = "KeyError"
                        /\ gal[g].error_key \in Lacking(gal[g].snapshot)

\* the request failed with KeyError after it had gathered a record
C8_Witness ==
    \E g \in Galleries :
        /\ gal[g].pc = "failed"
        /\ gal[g].error = "KeyError"
        /\ gal[g].error_key = ForeignKey
        /\ Len(gal[g].blobs_list) >= 1
        /\ gal[g].response = ErrorResponse

\* C9: a store of a file name without "." is not turned away: it fails
\* only if the write does, and when it has written, its one blob is under
\* <id>.<file name in lower case> and keeps the file name as it was given
\* in original_file_name.
C9_NoDotDegenerateKey ==
    \A u \in Uploaders :
        (up[u].pc # "idle" /\ ~HasDot(up[u].file_name)) =>
            /\ up[u].pc = "failed" => up[u].write_error
            /\ Stored(u) =>
                  LET key == up[u].file_uuid_str \o << "." >>
                                \o Lowered(up[u].file_name)
                  IN  /\ KeysOfId(up[u].file_uuid_str) = {key}
                      /\ container[key].metadata.original_file_name =
                             up[u].file_name

C9_Witness ==
    \E u \in Uploaders :
        /\ up[u].pc = "done"
        /\ up[u].response = "uploaded.html"
        /\ up[u].file_name = << "a", "B" >>
        /\ KeysOfId(up[u].file_uuid_str) =
               {up[u].file_uuid_str \o << ".", "a", "b" >>}
        /\ \A k \in KeysOfId(up[u].file_uuid_str) :
              container[k].metadata.original_file_name = << "a", "B" >>

\* C10: the blob a store has written has the prefix of its key as uuid
\* metadata, the file name as given as original_file_name and the content
\* type as given; a gallery request that began after the write and ended
\* well has one record of that uuid, with the fixed author, title and badge,
\* and every record it answers has the same fixed image_url.
C10_StoreListRoundTrip ==
    \A u \in Uploaders :
        Stored(u) =>
            LET key == up[u].new_filename IN
            /\ key \in DOMAIN container
            /\ container[key].metadata.uuid = IdPrefix(key)
            /\ container[key].metadata.original_file_name = up[u].file_name
            /\ container[key].content_type = up[u].file_content_type
            /\ container[key].contents = up[u].file_contents
            /\ \A g \in Galleries :
                  (gal[g].pc = "done" /\ key \in DOMAIN gal[g].snapshot) =>
                      /\ \E i \in 1..Len(gal[g].response.blobs) :
                            gal[g].response.blobs[i] =
                                [uuid |-> IdPrefix(key),
                                 image_url |->
                                     "https://bootsnipp.com/bootstrap-builder/libs/builder/icons/image.svg",
                                 author |-> "Dummy User",
                                 title |-> "Dummy title",
                                 badge |-> "dummy badge"]
                      /\ \A i \in 1..Len(gal[g].response.blobs) :
                            gal[g].response.blobs[i].image_url =
                                "https://bootsnipp.com/bootstrap-builder/libs/builder/icons/image.svg"

C10_Witness ==
    \E u \in Uploaders : \E g \in Galleries :
        /\ up[u].pc = "done"
        /\ up[u].file_name = << "a", ".", "B" >>
        /\ up[u].file_content_type = "video/webm"
        /\ gal[g].pc = "done"
        /\ up[u].new_filename \in DOMAIN gal[g].snapshot
        /\ Len(gal[g].response.blobs) = 2
====
